---- MODULE Spec2Model ----
(***************************************************************************)
(* Model of server.js: the image upload / grayscale / store pipeline, the  *)
(* catalog listing and the download route.                                 *)
(*                                                                         *)
(* Text (file names, paths, MIME types) is a sequence of one-character     *)
(* strings, so that split, extname, join and the regular expressions of    *)
(* the source are computed and not assumed.  File contents are sequences   *)
(* of bytes.  The file system is a function from normalized relative       *)
(* paths (relative to the working directory of the server) to files.       *)
(***************************************************************************)
EXTENDS Integers, Sequences, FiniteSets, TLC

\* ------------------------------------------------------------------ bounds

\* number of process-image requests
MaxReqs == 2
\* Date.now() takes the values 1..MaxClock
MaxClock == 2
\* number of pixels of a buffer in the grayscale specification
MaxPixels == 1

\* ------------------------------------------------------------------- text

Min(a, b) == IF a < b THEN a ELSE b

Take(s, n) == SubSeq(s, 1, Min(n, Len(s)))

Drop(s, n) == SubSeq(s, n + 1, Len(s))

UpperChars == <<"A","B","C","D","E","F","G","H","I","J","K","L","M",
                "N","O","P","Q","R","S","T","U","V","W","X","Y","Z">>

LowerChars == <<"a","b","c","d","e","f","g","h","i","j","k","l","m",
                "n","o","p","q","r","s","t","u","v","w","x","y","z">>

DigitChars == <<"0","1","2","3","4","5","6","7","8","9">>

\* String.prototype.toLowerCase, one character
LowerChar(c) ==
    IF \E i \in 1..26 : UpperChars[i] = c
    THEN LowerChars[CHOOSE i \in 1..26 : UpperChars[i] = c]
    ELSE c

\* String.prototype.toLowerCase
ToLowerCase(s) == [i \in 1..Len(s) |-> LowerChar(s[i])]

\* Number to string, as in Date.now() + '-' + ...
RECURSIVE NumToStr(_)
NumToStr(n) ==
    IF n < 10 THEN <<DigitChars[n + 1]>>
    ELSE NumToStr(n \div 10) \o <<DigitChars[(n % 10) + 1]>>

\* the literal pat occurs in s at position i
MatchAt(s, pat, i) ==
    /\ i >= 1
    /\ i + Len(pat) - 1 <= Len(s)
    /\ SubSeq(s, i, i + Len(pat) - 1) = pat

\* an unanchored regular expression of one literal: pat occurs somewhere in s
Contains(s, pat) == \E i \in 1..(Len(s) + 1) : MatchAt(s, pat, i)

\* a literal anchored with $
EndsWith(s, pat) == MatchAt(s, pat, Len(s) - Len(pat) + 1)

\* index of the first / last occurrence of character c in s, 0 when absent
IndexOf(s, c) ==
    IF \E i \in 1..Len(s) : s[i] = c
    THEN CHOOSE i \in 1..Len(s) : s[i] = c /\ \A j \in 1..(i - 1) : s[j] # c
    ELSE 0

LastIndexOf(s, c) ==
    IF \E i \in 1..Len(s) : s[i] = c
    THEN CHOOSE i \in 1..Len(s) : s[i] = c /\ \A j \in (i + 1)..Len(s) : s[j] # c
    ELSE 0

\* String.prototype.split(c): the sequence of the pieces between the c's
RECURSIVE Split(_, _)
Split(s, c) ==
    LET i == IndexOf(s, c)
    IN IF i = 0 THEN <<s>>
       ELSE <<SubSeq(s, 1, i - 1)>> \o Split(Drop(s, i), c)

\* Array.prototype.join(c)
RECURSIVE JoinWith(_, _)
JoinWith(parts, c) ==
    IF Len(parts) = 0 THEN <<>>
    ELSE IF Len(parts) = 1 THEN parts[1]
    ELSE parts[1] \o <<c>> \o JoinWith(Tail(parts), c)

\* ------------------------------------------------------------------ paths

\* path.basename / path.dirname of a relative path
Basename(p) == Drop(p, LastIndexOf(p, "/"))

Dirname(p) ==
    LET i == LastIndexOf(p, "/")
    IN IF i = 0 THEN <<".">> ELSE SubSeq(p, 1, i - 1)

\* path.extname: from the last '.' of the last portion of the path to its
\* end; empty when there is none or when the portion starts with its only '.'
ExtName(p) ==
    LET b == Basename(p)
        i == LastIndexOf(b, ".")
    IN IF i <= 1 \/ b = <<".", ".">> THEN <<>> ELSE Drop(b, i - 1)

\* path.normalize on the segments of a relative path: "" and "." are dropped,
\* ".." removes the segment before it, or stays when there is none to remove
RECURSIVE NormalizeSegs(_, _)
NormalizeSegs(todo, acc) ==
    IF Len(todo) = 0 THEN acc
    ELSE LET seg == Head(todo)
             rest == Tail(todo)
         IN IF seg = <<>> \/ seg = <<".">> THEN NormalizeSegs(rest, acc)
            ELSE IF seg = <<".", ".">>
                 THEN IF Len(acc) > 0 /\ acc[Len(acc)] # <<".", ".">>
                      THEN NormalizeSegs(rest, SubSeq(acc, 1, Len(acc) - 1))
                      ELSE NormalizeSegs(rest, Append(acc, seg))
                 ELSE NormalizeSegs(rest, Append(acc, seg))

\* path.normalize of a relative path: the segments are normalized, an empty
\* result is '.', and a trailing separator is kept
Normalize(p) ==
    LET segs == NormalizeSegs(Split(p, "/"), <<>>)
        trailing == Len(p) > 0 /\ p[Len(p)] = "/"
    IN (IF Len(segs) = 0 THEN <<".">> ELSE JoinWith(segs, "/"))
       \o (IF trailing THEN <<"/">> ELSE <<>>)

\* path.join(a, b) of relative paths: the arguments that are not empty are
\* joined with the separator and the result is normalized
PathJoin(a, b) ==
    IF Len(b) = 0 THEN Normalize(a)
    ELSE IF Len(a) = 0 THEN Normalize(b)
    ELSE Normalize(a \o <<"/">> \o b)

\* ----------------------------------------------------------------- pixels

\* the bytes the pixel buffers of the grayscale specification are drawn from
ByteSamples == {0, 1, 2, 255}

\* A store of the number num/den into a Uint8ClampedArray: clamped to
\* 0..255 and rounded to the nearest integer, halves to the even one.
ToUint8Clamp_truncating(num, den) ==
    IF num <= 0 THEN 0
    ELSE IF num >= 255 * den THEN 255
    ELSE num \div den

ToUint8Clamp(num, den) ==
    IF num <= 0 THEN 0
    ELSE IF num >= 255 * den THEN 255
    ELSE LET q == num \div den
             r == num % den
         IN IF 2 * r < den THEN q
            ELSE IF 2 * r > den THEN q + 1
            ELSE IF q % 2 = 0 THEN q ELSE q + 1

\* One iteration of the loop of processImage, on the pixel whose red byte is
\* data[i] (1-based): avg is read from the three colour bytes, then stored
\* into each of them; the alpha byte data[i + 3] is not assigned.
GrayscalePixel_rereading(data, i) ==
    LET d1 == [data EXCEPT ![i] = ToUint8Clamp(data[i] + data[i + 1] + data[i + 2], 3)]
        d2 == [d1 EXCEPT ![i + 1] = ToUint8Clamp(d1[i] + d1[i + 1] + d1[i + 2], 3)]
    IN [d2 EXCEPT ![i + 2] = ToUint8Clamp(d2[i] + d2[i + 1] + d2[i + 2], 3)]

GrayscalePixel(data, i) ==
    LET avgNum == data[i] + data[i + 1] + data[i + 2]
        avg == ToUint8Clamp(avgNum, 3)
    IN [data EXCEPT ![i] = avg, ![i + 1] = avg, ![i + 2] = avg]

\* for (let i = 0; i < data.length; i += 4) { ... }
RECURSIVE GrayscaleFrom(_, _)
GrayscaleFrom(data, i) ==
    IF i > Len(data) THEN data
    ELSE GrayscaleFrom(GrayscalePixel(data, i), i + 4)

Grayscale(data) == GrayscaleFrom(data, 1)

\* ------------------------------------------------------------ image codec

\* first byte of the signature of an encoded image
PngMagic == 137

\* canvas.toBuffer('image/png'): a lossless encoding of width, height, data
EncodePng(img) == <<PngMagic, img.width, img.height>> \o img.data

\* whether bytes decode: the signature, positive dimensions, all the pixels
\* (what follows the end of the image is not read)
IsImage(bytes) ==
    /\ Len(bytes) >= 3
    /\ bytes[1] = PngMagic
    /\ bytes[2] > 0
    /\ bytes[3] > 0
    /\ Len(bytes) >= 3 + 4 * bytes[2] * bytes[3]

\* loadImage, drawImage and getImageData of a file that decodes
DecodeImage(bytes) ==
    [width |-> bytes[2], height |-> bytes[3],
     data |-> Take(Drop(bytes, 3), 4 * bytes[2] * bytes[3])]

NoImage == [width |-> 0, height |-> 0, data |-> <<>>]

\* ------------------------------------------------------------ file system

OutputDir == <<"o","u","t","p","u","t","s">>

UploadDir == <<"u","p","l","o","a","d","s">>

\* p without its trailing separator
StripSeparator(p) ==
    IF Len(p) > 1 /\ p[Len(p)] = "/" THEN SubSeq(p, 1, Len(p) - 1) ELSE p

\* p is '..' or '../..' and so on: a directory above the working directory
IsAncestor(p) ==
    /\ Len(p) > 0
    /\ \A i \in 1..Len(Split(p, "/")) : Split(p, "/")[i] = <<".", ".">>

\* p names a directory: one of directories, or a directory above
IsDirectory(directories, p) ==
    StripSeparator(p) \in directories \/ IsAncestor(StripSeparator(p))

\* fs.existsSync: a directory, or a file named without a trailing separator
ExistsSync(files, directories, p) ==
    \/ IsDirectory(directories, p)
    \/ p \in DOMAIN files

\* fs.readdirSync(dir): the names of the entries directly in dir
ReadDirSync(files, dir) ==
    {Basename(p) : p \in {q \in DOMAIN files : Dirname(q) = dir}}

\* fs.writeFileSync(p, bytes) at time t: creates the file, or truncates and
\* rewrites the one that is there (it stays the same file, with its birthtime).
\* ino tells a file from an earlier one that had its path.
CreateOrTruncate(files, p, bytes, t, ino) ==
    [q \in DOMAIN files \cup {p} |->
        IF q = p
        THEN IF p \in DOMAIN files
             THEN [bytes |-> bytes, birthtime |-> files[p].birthtime, ino |-> files[p].ino]
             ELSE [bytes |-> bytes, birthtime |-> t, ino |-> ino]
        ELSE files[q]]

WriteFileSync(files, p, bytes, t) == CreateOrTruncate(files, p, bytes, t, 0)

\* the longest file name the file system takes (ENAMETOOLONG beyond it)
NameMax == 255

\* whether a file can be opened at p
NameFits(p) == Len(Basename(p)) <= NameMax

\* fs.unlinkSync(p) of a file that exists
UnlinkSync(files, p) == [q \in DOMAIN files \ {p} |-> files[q]]

\* fs.createWriteStream(p) opens: the file is created empty, or truncated
StreamOpen(files, p, t, ino) == CreateOrTruncate(files, p, <<>>, t, ino)

\* the stream opened on file ino at path p writes bytes from position 0; a
\* file that was unlinked since is written without being visible
StreamWrite(files, p, bytes, ino) ==
    IF p \in DOMAIN files /\ files[p].ino = ino
    THEN [files EXCEPT ![p].bytes = bytes \o Drop(@, Len(bytes))]
    ELSE files

\* ----------------------------------------------------------------- inputs

PngSuffix == <<".","p","n","g">>

MimePng == <<"i","m","a","g","e","/","p","n","g">>

MimeText == <<"t","e","x","t","/","p","l","a","i","n">>

\* limits.fileSize: 10 * 1024 * 1024
FileSizeLimit == 10485760

\* a 1 x 1 and a 2 x 1 image, encoded, and a file that does not decode
ImageA == EncodePng([width |-> 1, height |-> 1, data |-> <<1, 1, 0, 255>>])

ImageB == EncodePng([width |-> 2, height |-> 1,
                     data |-> <<255, 0, 0, 255, 0, 0, 2, 255>>])

Corrupt == <<PngMagic, 1>>

\* a file part of a request: original file name, declared type, body
FilePart(originalname, mimetype, body) ==
    [originalname |-> originalname, mimetype |-> mimetype, body |-> body,
     size |-> Len(body)]

\* a file name that fits as a staged name, and whose output name does not
LongName == [i \in 1..(NameMax - 15) |-> "a"] \o PngSuffix

\* The uploads a client sends.  The last one is over the size limit: body
\* stands for its first bytes.
Uploads ==
    { FilePart(<<"a">> \o PngSuffix, MimePng, ImageA),
      FilePart(LongName, MimePng, ImageA),
      FilePart(<<"a">> \o PngSuffix, MimePng, ImageB),
      FilePart(<<"a",".","x">> \o PngSuffix, MimePng, ImageB),
      FilePart(<<"B",".","P","N","G">>, MimePng, Corrupt),
      FilePart(<<"a">> \o PngSuffix \o <<"x">>, MimePng, ImageA),
      FilePart(<<"a",".","t","x","t">>, MimeText, ImageA),
      [originalname |-> <<"a">> \o PngSuffix, mimetype |-> MimePng, body |-> ImageA,
       size |-> FileSizeLimit + 1] }

\* the file of the server itself, in the working directory
ServerJs == <<"s","e","r","v","e","r",".","j","s">>

\* a file in the outputs directory that no request wrote
StrayFile == <<"o","l","d",".","p","n","g",".","b","a","k">>

\* file names a client asks the download route for, besides the stored ones
ProbeNames ==
    { <<"m","i","s","s","i","n","g">> \o PngSuffix,
      <<".",".","/">> \o ServerJs,
      <<".",".","/">> \o UploadDir,
      StrayFile \o <<"/">> }

\* ------------------------------------------------------------------ state

VARIABLES
    now,        \* Date.now()
    fs,         \* the files under the working directory: path -> bytes, birthtime
    dirs,       \* the directories under the working directory
    req,        \* the process-image requests
    microtasks, \* the requests whose handler resumes in this turn, in order
    listing,    \* the last response of GET /api/images
    dl,         \* the download request being served
    data0,      \* grayscale specification: the buffer before the loop
    data,       \* grayscale specification: the buffer
    passes      \* grayscale specification: how often the loop has run

vars == <<now, fs, dirs, req, microtasks, listing, dl, data0, data, passes>>

Reqs == 1..MaxReqs

NoFile == [originalname |-> <<>>, mimetype |-> <<>>, filename |-> <<>>,
           path |-> <<>>, size |-> 0]

NoListing == [status |-> 0, images |-> {}]

NoDownload == [pc |-> "idle", filename |-> <<>>, path |-> <<>>, size |-> 0,
               status |-> 0, body |-> <<>>]

\* the server has started: outputs exists, uploads does not yet
Init ==
    /\ now = 1
    /\ fs = (PathJoin(<<".">>, ServerJs) :>
                [bytes |-> <<1, 2, 3>>, birthtime |-> 0, ino |-> 0])
            @@ (PathJoin(OutputDir, StrayFile) :>
                [bytes |-> <<4>>, birthtime |-> 0, ino |-> 0])
    /\ dirs = {<<".">>, OutputDir}
    /\ req = [r \in Reqs |->
                [pc |-> "idle", file |-> NoFile, body |-> <<>>,
                 outputFilename |-> <<>>, img |-> NoImage,
                 success |-> FALSE, status |-> 0, fd |-> 0]]
    /\ microtasks = <<>>
    /\ listing = NoListing
    /\ dl = NoDownload
    /\ data0 = <<>>
    /\ data = <<>>
    /\ passes = 0

\* ------------------------------------------------- POST /api/process-image

\* No request is inside fs.writeFileSync: the call blocks the thread that
\* runs the handlers, and what runs meanwhile is the reading of a download.
MainThreadFree == \A r \in Reqs : req[r].pc # "writing"

\* allowedTypes = /jpeg|jpg|png|gif/ ; allowedTypes.test(s)
AllowedTypes(s) ==
    \/ Contains(s, <<"j","p","e","g">>)
    \/ Contains(s, <<"j","p","g">>)
    \/ Contains(s, <<"p","n","g">>)
    \/ Contains(s, <<"g","i","f">>)

\* upload.fileFilter
FileFilter(file) ==
    LET extname == AllowedTypes(ToLowerCase(ExtName(file.originalname)))
        mimetype == AllowedTypes(file.mimetype)
    IN mimetype /\ extname

\* storage.filename
StorageFilename(t, file) == NumToStr(t) \o <<"-">> \o file.originalname

\* `processed-${req.file.filename.split('.')[0]}.png`
OutputFilename(filename) ==
    <<"p","r","o","c","e","s","s","e","d","-">> \o Split(filename, ".")[1] \o PngSuffix

\* The file part of a request begins.  multer runs the file filter; a file
\* that is refused goes to the error handling middleware, which answers 500.
\* For a file that passes, storage.destination makes the uploads directory
\* when it is missing and storage.filename names the staged file after the
\* clock; a write stream on that path is created, which opens later.
UploadBegin(r, u) ==
    /\ MainThreadFree
    /\ microtasks = <<>>
    /\ req[r].pc = "idle"
    /\ \A q \in Reqs : q < r => req[q].pc # "idle"
    /\ IF FileFilter(u)
       THEN LET filename == StorageFilename(now, u)
            IN /\ dirs' = dirs \cup {UploadDir}
               /\ req' = [req EXCEPT ![r] =
                            [@ EXCEPT !.pc = "opening",
                                      !.file = [originalname |-> u.originalname,
                                                mimetype |-> u.mimetype,
                                                filename |-> filename,
                                                path |-> PathJoin(UploadDir, filename),
                                                size |-> u.size],
                                      !.body = u.body]]
       ELSE /\ req' = [req EXCEPT ![r] = [@ EXCEPT !.pc = "done", !.status = 500]]
            /\ UNCHANGED dirs
    /\ UNCHANGED <<now, fs, microtasks, listing, dl, data0, data, passes>>

\* The write stream opens: the staged file is created empty, or the file
\* that is at the path is truncated, and the stream holds that file (fd).
\* When the name is too long the stream fails, and the error handling
\* middleware answers 500.
UploadOpen(r) ==
    /\ MainThreadFree
    /\ microtasks = <<>>
    /\ req[r].pc = "opening"
    /\ IF NameFits(req[r].file.path)
       THEN /\ fs' = StreamOpen(fs, req[r].file.path, now, r)
            /\ req' = [req EXCEPT ![r] =
                         [@ EXCEPT !.pc = "streaming",
                                   !.fd = fs'[req[r].file.path].ino]]
       ELSE /\ fs' = fs
            /\ req' = [req EXCEPT ![r] =
                         [@ EXCEPT !.pc = "done", !.body = <<>>, !.status = 500]]
    /\ UNCHANGED <<now, dirs, microtasks, listing, dl, data0, data, passes>>

\* The body, up to the size limit, is written through the stream.  For a
\* file within the limit the route handler then starts: it computes the
\* output name and calls processImage, which waits for loadImage.  For a
\* file over the limit multer gives up the request.
UploadWrite(r) ==
    /\ MainThreadFree
    /\ microtasks = <<>>
    /\ req[r].pc = "streaming"
    /\ fs' = StreamWrite(fs, req[r].file.path, Take(req[r].body, FileSizeLimit),
                        req[r].fd)
    /\ IF req[r].file.size > FileSizeLimit
       THEN req' = [req EXCEPT ![r] = [@ EXCEPT !.pc = "aborting", !.body = <<>>]]
       ELSE req' = [req EXCEPT ![r] =
                      [@ EXCEPT !.pc = "staged", !.body = <<>>,
                                !.outputFilename = OutputFilename(req[r].file.filename)]]
    /\ UNCHANGED <<now, dirs, microtasks, listing, dl, data0, data, passes>>

\* multer removes the file of a request it gave up and passes on its
\* LIMIT_FILE_SIZE error, which the error handling middleware answers 400.
UploadAbort(r) ==
    /\ MainThreadFree
    /\ microtasks = <<>>
    /\ req[r].pc = "aborting"
    /\ fs' = IF req[r].file.path \in DOMAIN fs
             THEN UnlinkSync(fs, req[r].file.path) ELSE fs
    /\ req' = [req EXCEPT ![r] = [@ EXCEPT !.pc = "done", !.status = 400]]
    /\ UNCHANGED <<now, dirs, microtasks, listing, dl, data0, data, passes>>

\* A request without a file part: req.file is undefined, the handler answers 400.
UploadNothing(r) ==
    /\ MainThreadFree
    /\ microtasks = <<>>
    /\ req[r].pc = "idle"
    /\ \A q \in Reqs : q < r => req[q].pc # "idle"
    /\ req' = [req EXCEPT ![r] = [@ EXCEPT !.pc = "done", !.status = 400]]
    /\ UNCHANGED <<now, fs, dirs, microtasks, listing, dl, data0, data, passes>>

\* loadImage(imagePath) reads the staged file while processImage waits for
\* its promise.  The file decodes, or it is gone or does not decode; the
\* promise is settled later.
LoadImage(r) ==
    /\ MainThreadFree
    /\ microtasks = <<>>
    /\ req[r].pc = "staged"
    /\ LET inputPath == req[r].file.path
       IN IF inputPath \in DOMAIN fs /\ IsImage(fs[inputPath].bytes)
          THEN req' = [req EXCEPT ![r] =
                         [@ EXCEPT !.pc = "decoded",
                                   !.img = DecodeImage(fs[inputPath].bytes)]]
          ELSE req' = [req EXCEPT ![r] = [@ EXCEPT !.pc = "rejected"]]
    /\ UNCHANGED <<now, fs, dirs, microtasks, listing, dl, data0, data, passes>>

\* The promise of loadImage is rejected: the catch block of processImage
\* returns success: false.  The handler, which awaits processImage, resumes
\* later in the same turn, after the continuations that are already waiting.
LoadImageRejects(r) ==
    /\ MainThreadFree
    /\ req[r].pc = "rejected"
    /\ req' = [req EXCEPT ![r] = [@ EXCEPT !.pc = "failed", !.success = FALSE]]
    /\ microtasks' = Append(microtasks, r)
    /\ UNCHANGED <<now, fs, dirs, listing, dl, data0, data, passes>>

\* The promise of loadImage is settled and processImage goes on: the
\* grayscale loop, the encoding, and fs.writeFileSync, which first opens the
\* output file: it is created empty, or the file that is there is truncated.
\* When the output name is too long the call throws: the catch block of
\* processImage returns success: false and the handler resumes later in the
\* same turn.  The promise of another request may be settled in this turn too.
ProcessImage(r) ==
    /\ MainThreadFree
    /\ req[r].pc = "decoded"
    /\ LET outputPath == PathJoin(OutputDir, req[r].outputFilename)
           gray == [req[r].img EXCEPT !.data = Grayscale(req[r].img.data)]
       IN IF NameFits(outputPath)
          THEN /\ fs' = CreateOrTruncate(fs, outputPath, <<>>, now, 0)
               /\ req' = [req EXCEPT ![r] = [@ EXCEPT !.pc = "writing", !.img = gray]]
               /\ UNCHANGED microtasks
          ELSE /\ fs' = fs
               /\ req' = [req EXCEPT ![r] =
                            [@ EXCEPT !.pc = "failed", !.img = gray, !.success = FALSE]]
               /\ microtasks' = Append(microtasks, r)
    /\ UNCHANGED <<now, dirs, listing, dl, data0, data, passes>>

\* fs.writeFileSync writes the buffer into the opened output file and
\* returns; processImage returns success: true.  The handler, which awaits
\* processImage, resumes later in the same turn, after the continuations
\* that are already waiting.
WriteOutput(r) ==
    /\ req[r].pc = "writing"
    /\ LET outputPath == PathJoin(OutputDir, req[r].outputFilename)
           buffer == EncodePng(req[r].img)
       IN fs' = WriteFileSync(fs, outputPath, buffer, now)
    /\ req' = [req EXCEPT ![r] = [@ EXCEPT !.pc = "written", !.success = TRUE]]
    /\ microtasks' = Append(microtasks, r)
    /\ UNCHANGED <<now, dirs, listing, dl, data0, data, passes>>

\* The handler resumes after await processImage(...).  With result.success
\* it removes the staged file and answers 200; unlinkSync throws when the
\* staged file is not there, and the catch block answers 500.  Without
\* result.success it answers 500 and leaves the files alone.
HandlerResume(r) ==
    /\ MainThreadFree
    /\ microtasks # <<>>
    /\ Head(microtasks) = r
    /\ req[r].pc \in {"written", "failed"}
    /\ LET inputPath == req[r].file.path
       IN IF req[r].success /\ inputPath \in DOMAIN fs
          THEN /\ fs' = UnlinkSync(fs, inputPath)
               /\ req' = [req EXCEPT ![r] = [@ EXCEPT !.pc = "done", !.status = 200]]
          ELSE /\ fs' = fs
               /\ req' = [req EXCEPT ![r] = [@ EXCEPT !.pc = "done", !.status = 500]]
    /\ microtasks' = Tail(microtasks)
    /\ UNCHANGED <<now, dirs, listing, dl, data0, data, passes>>

\* the clock advances
Tick ==
    /\ MainThreadFree
    /\ microtasks = <<>>
    /\ now < MaxClock
    /\ now' = now + 1
    /\ UNCHANGED <<fs, dirs, req, microtasks, listing, dl, data0, data, passes>>

\* ------------------------------------------------------- GET /api/images

\* /\.(jpg|jpeg|png|gif)$/i.test(file)
IsImageFile_unanchored(file) ==
    \/ Contains(ToLowerCase(file), <<".","j","p","g">>)
    \/ Contains(ToLowerCase(file), <<".","j","p","e","g">>)
    \/ Contains(ToLowerCase(file), <<".","p","n","g">>)
    \/ Contains(ToLowerCase(file), <<".","g","i","f">>)

IsImageFile(file) ==
    \/ EndsWith(ToLowerCase(file), <<".","j","p","g">>)
    \/ EndsWith(ToLowerCase(file), <<".","j","p","e","g">>)
    \/ EndsWith(ToLowerCase(file), <<".","p","n","g">>)
    \/ EndsWith(ToLowerCase(file), <<".","g","i","f">>)

\* the images of the response: file name, url and birthtime of every entry
\* of the outputs directory that the filter keeps
ImageFiles(files) ==
    { [filename |-> file,
       url |-> <<"/">> \o OutputDir \o <<"/">> \o file,
       created |-> files[PathJoin(OutputDir, file)].birthtime] :
      file \in {f \in ReadDirSync(files, OutputDir) : IsImageFile(f)} }

ListImages ==
    /\ MainThreadFree
    /\ microtasks = <<>>
    /\ UNCHANGED <<now, fs, dirs, req, microtasks, dl, data0, data, passes>>
    /\ listing' = [status |-> 200, images |-> ImageFiles(fs)]

\* --------------------------------------------- GET /api/download/:filename

\* The handler: the file name of the request is joined to the outputs
\* directory; when nothing exists at that path the answer is 404, otherwise
\* res.download(filePath) starts sending the file.
DownloadStart(filename) ==
    /\ MainThreadFree
    /\ microtasks = <<>>
    /\ dl.pc \in {"idle", "done"}
    /\ LET filePath == PathJoin(OutputDir, filename)
       IN IF ExistsSync(fs, dirs, filePath)
          THEN dl' = [pc |-> "stat", filename |-> filename, path |-> filePath,
                      size |-> 0, status |-> 0, body |-> <<>>]
          ELSE dl' = [pc |-> "done", filename |-> filename, path |-> filePath,
                      size |-> 0, status |-> 404, body |-> <<>>]
    /\ UNCHANGED <<now, fs, dirs, req, microtasks, listing, data0, data, passes>>

\* res.download, first step: the file is looked up and its size becomes the
\* length of the response.  A directory is passed on and ends as 404; a file
\* that is gone is an error, which the error handling middleware answers.
DownloadStat ==
    /\ microtasks = <<>>
    /\ dl.pc = "stat"
    /\ IF dl.path \in DOMAIN fs
       THEN dl' = [dl EXCEPT !.pc = "stream", !.size = Len(fs[dl.path].bytes)]
       ELSE IF IsDirectory(dirs, dl.path)
            THEN dl' = [dl EXCEPT !.pc = "done", !.status = 404]
            ELSE dl' = [dl EXCEPT !.pc = "done", !.status = 500]
    /\ UNCHANGED <<now, fs, dirs, req, microtasks, listing, data0, data, passes>>

\* res.download, second step: the file is read, up to the size found before,
\* from what is at the path by then.
DownloadStream ==
    /\ microtasks = <<>>
    /\ dl.pc = "stream"
    /\ IF dl.path \in DOMAIN fs
       THEN dl' = [dl EXCEPT !.pc = "done", !.status = 200,
                             !.body = Take(fs[dl.path].bytes, dl.size)]
       ELSE dl' = [dl EXCEPT !.pc = "done", !.status = 500]
    /\ UNCHANGED <<now, fs, dirs, req, microtasks, listing, data0, data, passes>>

\* ---------------------------------------------------------- specification

Next ==
    \/ \E r \in Reqs, u \in Uploads : UploadBegin(r, u)
    \/ \E r \in Reqs : UploadOpen(r)
    \/ \E r \in Reqs : UploadWrite(r)
    \/ \E r \in Reqs : UploadAbort(r)
    \/ \E r \in Reqs : UploadNothing(r)
    \/ \E r \in Reqs : LoadImage(r)
    \/ \E r \in Reqs : LoadImageRejects(r)
    \/ \E r \in Reqs : ProcessImage(r)
    \/ \E r \in Reqs : WriteOutput(r)
    \/ \E r \in Reqs : HandlerResume(r)
    \/ Tick
    \/ ListImages
    \/ \E f \in ReadDirSync(fs, OutputDir) \cup ProbeNames : DownloadStart(f)
    \/ DownloadStat
    \/ DownloadStream

Spec == Init /\ [][Next]_vars

\* the requests that change or list the outputs directory, without downloads
NextCatalog ==
    \/ \E r \in Reqs, u \in Uploads : UploadBegin(r, u)
    \/ \E r \in Reqs : UploadOpen(r)
    \/ \E r \in Reqs : UploadWrite(r)
    \/ \E r \in Reqs : UploadAbort(r)
    \/ \E r \in Reqs : UploadNothing(r)
    \/ \E r \in Reqs : LoadImage(r)
    \/ \E r \in Reqs : LoadImageRejects(r)
    \/ \E r \in Reqs : ProcessImage(r)
    \/ \E r \in Reqs : WriteOutput(r)
    \/ \E r \in Reqs : HandlerResume(r)
    \/ Tick
    \/ ListImages

SpecCatalog == Init /\ [][NextCatalog]_vars

\* ------------------------------------------------ grayscale specification

\* how often the loop is applied to a buffer
MaxPasses == 2

\* the buffers of 1..MaxPixels pixels over ByteSamples
PixelBuffers ==
    UNION { [1..(4 * n) -> ByteSamples] : n \in 1..MaxPixels }

InitGray ==
    /\ now = 1
    /\ fs = << >>
    /\ dirs = {}
    /\ req = << >>
    /\ microtasks = << >>
    /\ listing = NoListing
    /\ dl = NoDownload
    /\ data0 \in PixelBuffers
    /\ data = data0
    /\ passes = 0

\* the loop of processImage runs over the buffer
ApplyGrayscale ==
    /\ passes < MaxPasses
    /\ data' = Grayscale(data)
    /\ passes' = passes + 1
    /\ UNCHANGED <<now, fs, dirs, req, microtasks, listing, dl, data0>>

NextGray == ApplyGrayscale

SpecGray == InitGray /\ [][NextGray]_vars

\* ----------------------------------------------------------------- claims

\* the pixels of a buffer, and the index before the bytes of pixel k
PixelsOf(d) == 1..(Len(d) \div 4)

Base(k) == 4 * (k - 1)

\* the sum of the three colour bytes of pixel k of buffer d
ColourSum(d, k) == d[Base(k) + 1] + d[Base(k) + 2] + d[Base(k) + 3]

\* C1, as claimed: after the loop every pixel has R = G = B =
\* floor((R0 + G0 + B0) / 3) of its original bytes and its original alpha.
C1_GrayscaleFloors ==
    passes = 1 =>
        /\ Len(data) = Len(data0)
        /\ \A k \in PixelsOf(data0) :
              /\ data[Base(k) + 1] = ColourSum(data0, k) \div 3
              /\ data[Base(k) + 2] = ColourSum(data0, k) \div 3
              /\ data[Base(k) + 3] = ColourSum(data0, k) \div 3
              /\ data[Base(k) + 4] = data0[Base(k) + 4]

\* C1, amended: after the loop every pixel has R = G = B = (R0 + G0 + B0) / 3
\* rounded to the nearest integer, floor((2 * sum + 3) / 6), computed from
\* the original bytes of that pixel, and its original alpha.
C1_GrayscaleRounds ==
    passes = 1 =>
        /\ Len(data) = Len(data0)
        /\ \A k \in PixelsOf(data0) :
              /\ data[Base(k) + 1] = (2 * ColourSum(data0, k) + 3) \div 6
              /\ data[Base(k) + 2] = (2 * ColourSum(data0, k) + 3) \div 6
              /\ data[Base(k) + 3] = (2 * ColourSum(data0, k) + 3) \div 6
              /\ data[Base(k) + 4] = data0[Base(k) + 4]

\* C1, witness: the loop has run over a pixel whose average has the
\* fraction 2/3, with unequal colours and an alpha that is not opaque.
C1_Witness ==
    /\ passes = 1
    /\ \E k \in PixelsOf(data0) :
          /\ ColourSum(data0, k) % 3 = 2
          /\ data0[Base(k) + 1] # data0[Base(k) + 3]
          /\ data0[Base(k) + 4] # 255
          /\ data[Base(k) + 1] = (ColourSum(data0, k) \div 3) + 1

\* C8: the loop applied twice gives the buffer the loop applied once gives.
C8_GrayscaleIdempotent ==
    passes >= 2 => data = Grayscale(data0)

\* C8, witness: the loop has run twice over a buffer with a coloured pixel,
\* which the first run changed.
C8_Witness ==
    /\ passes = 2
    /\ data # data0
    /\ \E k \in PixelsOf(data0) : data0[Base(k) + 1] # data0[Base(k) + 2]

\* the path of the output file of request r
OutputPath(r) == PathJoin(OutputDir, req[r].outputFilename)

\* C2, as claimed: the output file names of any two requests that were
\* answered with success differ, and each names a stored file.
C2_DistinctOutputNames ==
    \A r1 \in Reqs, r2 \in Reqs :
        (r1 # r2 /\ req[r1].status = 200 /\ req[r2].status = 200) =>
            /\ req[r1].outputFilename # req[r2].outputFilename
            /\ OutputPath(r1) \in DOMAIN fs
            /\ OutputPath(r2) \in DOMAIN fs

\* C3, as claimed: no step changes the bytes stored under the output name
\* of a request that was answered with success.
C3_NoOverwrite ==
    [][\A r \in Reqs :
          req[r].status = 200 =>
              /\ OutputPath(r) \in DOMAIN fs'
              /\ fs'[OutputPath(r)].bytes = fs[OutputPath(r)].bytes]_vars

\* C4, as claimed: a request that was answered with a failure has left no
\* output of its own: the outputs directory does not hold its result under
\* its output name, unless a request answered with success stored the same.
C4_FailureLeavesOutputs ==
    \A r \in Reqs :
        (req[r].pc = "done" /\ req[r].status # 200 /\ req[r].success) =>
            \/ OutputPath(r) \notin DOMAIN fs
            \/ fs[OutputPath(r)].bytes # EncodePng(req[r].img)
            \/ \E q \in Reqs :
                  /\ q # r
                  /\ req[q].status = 200
                  /\ OutputPath(q) = OutputPath(r)
                  /\ EncodePng(req[q].img) = EncodePng(req[r].img)

\* the accepted raster extensions
RasterExts == { <<"j","p","g">>, <<"j","p","e","g">>, <<"p","n","g">>, <<"g","i","f">> }

\* name is a stem, a '.', and an accepted extension in any case
RasterName(name) ==
    \E ext \in RasterExts :
        /\ Len(name) > Len(ext)
        /\ name[Len(name) - Len(ext)] = "."
        /\ \A i \in 1..Len(ext) :
              LowerChar(name[Len(name) - Len(ext) + i]) = ext[i]

\* C5: a list request answers with exactly the names in the outputs
\* directory that end in an accepted raster extension; in particular with
\* the output name of every request answered with success.
C5_ListingFidelity ==
    [][ListImages =>
          /\ {i.filename : i \in listing'.images} =
                {Basename(p) : p \in {q \in DOMAIN fs' :
                    Dirname(q) = OutputDir /\ RasterName(Basename(q))}}
          /\ \A r \in Reqs : req[r].status = 200 =>
                req[r].outputFilename \in {i.filename : i \in listing'.images}]_vars

\* C5, witness: a list request has answered with the outputs of two requests,
\* saved under different names, while the outputs directory holds a file
\* that is not a raster file.
C5_Witness ==
    /\ listing.status = 200
    /\ \E r, q \in Reqs :
          /\ req[r].status = 200
          /\ req[q].status = 200
          /\ req[r].outputFilename # req[q].outputFilename
          /\ {req[r].outputFilename, req[q].outputFilename}
                \subseteq {i.filename : i \in listing.images}
    /\ PathJoin(OutputDir, StrayFile) \in DOMAIN fs
    /\ StrayFile \notin {i.filename : i \in listing.images}

\* the declared types of the accepted set
AcceptedMimes ==
    { <<"i","m","a","g","e","/">> \o ext : ext \in RasterExts }

\* C6, as claimed: processImage is called only for a file whose extension
\* and MIME type are in the accepted set.
C6_OutsideSetRejected ==
    \A r \in Reqs :
        req[r].outputFilename # <<>> =>
            /\ \E ext \in RasterExts :
                  ToLowerCase(ExtName(req[r].file.originalname)) = <<".">> \o ext
            /\ req[r].file.mimetype \in AcceptedMimes

\* C7, as claimed: a download serves bytes only for a file name that names
\* an entry directly under the outputs directory, and answers 404 for every
\* other file name.
C7_DownloadStaysInStore ==
    /\ dl.status = 200 =>
          /\ dl.filename \in ReadDirSync(fs, OutputDir)
          /\ Dirname(dl.path) = OutputDir
    /\ (dl.pc = "done" /\ dl.filename \notin ReadDirSync(fs, OutputDir)) =>
          dl.status = 404

\* the full encoded output of every upload that decodes
FullOutputs ==
    { EncodePng([DecodeImage(u.body) EXCEPT !.data = Grayscale(DecodeImage(u.body).data)]) :
      u \in {v \in Uploads : IsImage(v.body)} }

\* C9, as claimed: every output file that is listed holds the full encoded
\* bytes of a save, and a download of an output file serves the full encoded
\* bytes of a save.
C9_NoPartialOutput ==
    /\ \A r \in Reqs :
          (MainThreadFree /\ OutputPath(r) \in DOMAIN fs) =>
              fs[OutputPath(r)].bytes \in FullOutputs
    /\ \A r \in Reqs :
          (dl.status = 200 /\ dl.path = OutputPath(r)) => dl.body \in FullOutputs

\* C10, as claimed: the step that answers a request that passed the upload
\* filter removes its staged file, after the output file was written, when
\* processImage reported success, and leaves the staged file in the uploads
\* directory when processImage reported failure.
C10_StagedFileLifecycle ==
    [][\A r \in Reqs :
          (req[r].pc \in {"written", "failed"} /\ req'[r].pc = "done") =>
              IF req'[r].success
              THEN /\ req[r].file.path \in DOMAIN fs
                   /\ req[r].file.path \notin DOMAIN fs'
                   /\ OutputPath(r) \in DOMAIN fs'
              ELSE req[r].file.path \in DOMAIN fs']_vars

====
